---- MODULE Spec2Model ----
(***************************************************************************)
(* GISManager (app/core/gis_manager.py) with its geometry parser           *)
(* (app/core/geometry_utils.py): the persisted `features` relation, the    *)
(* persisted `analysis_results` relation, the shared in-memory working set *)
(* self.gdf, and the coroutines that run against them.  A coroutine is cut *)
(* at its await points and at every statement that writes self.gdf: the    *)
(* event loop runs one coroutine at a time, but the functions handed to    *)
(* the thread pool (_load, _save, _buffer, _clip, _simplify, _dissolve,    *)
(* _union, _nearest, _join) read self.gdf at any moment, and the SQL       *)
(* statements run in the database server.                                  *)
(***************************************************************************)
EXTENDS Integers, Sequences, FiniteSets, TLC

VARIABLES
    db,         \* relation `features`: [hasName, rows]
    results,    \* relation `analysis_results`: committed rows, in commit order
    seq,        \* last value handed out by the result_id sequence
    gdf,        \* self.gdf, the working set shared by all coroutines
    task,       \* per coroutine: position, arguments, locals, return value
    calls,      \* number of calls started so far
    serialized, \* TRUE: callers await each call before issuing the next
    wrote,      \* history: the current call of a coroutine has written to a relation
    dbBefore,   \* history: `features` when the current call of a coroutine started
    resBefore,  \* history: `analysis_results` when the current call started
    addIds,     \* history: ids returned by completed add_feature calls, in order
    prevDel,    \* history: <<id>> if the caller's previous call was delete(id) = True
    madeBy      \* history: <<result_id, operation>> for every INSERT executed

vars == <<db, results, seq, gdf, task, calls, serialized, wrote, dbBefore,
          resBefore, addIds, prevDel, madeBy>>

Procs == {"t1", "t2"}

\* Number of calls issued in one behaviour: by callers that await each call,
\* and by callers that do not.
MaxCalls == 4
MaxConcCalls == 2

(***************************************************************************)
(* Values                                                                  *)
(***************************************************************************)

\* Python None in an Optional argument is <<>>, a supplied value v is <<v>>.
None == <<>>
Some(v) == <<v>>

\* A properties mapping, reduced to the two keys the code ever looks at:
\* p["name"] and p["properties"]["name"]; "-" is an absent key.
Dict(n, m) == [name |-> n, nested |-> m]
EmptyDict == Dict("-", "-")
NameA == Dict("A", "-")
NameB == Dict("B", "-")
NestedA == Dict("-", "A")
NestedB == Dict("-", "B")

\* Truth value of a dict: only {} is false.
DictTruthy(d) == d # EmptyDict

\* SQL NULL in a text column.
SqlNull == "NULL"

\* A shapely geometry: its geom_type, whether it is empty, its topological
\* defect ("none" = is_valid), the cells of the plane it lies in (1: the unit
\* square [0,1]x[0,1], 2: [2,3]x[0,1], 3: [8,9]x[8,9]), and the operation that
\* produced it.
Geom(t, e, d, c, v) == [gtype |-> t, empty |-> e, defect |-> d, cells |-> c, via |-> v]

\* shapely.geometry.shape on the GeoJSON objects used as inputs:
\*  ptA       {"type":"Point","coordinates":[0.5,0.5]}
\*  sqB       {"type":"Polygon","coordinates":[[[2,0],[2,1],[3,1],[3,0],[2,0]]]}
\*  bowtie    {"type":"Polygon","coordinates":[[[0,0],[1,1],[1,0],[0,1],[0,0]]]}
\*            (ring crosses itself; make_valid gives a MultiPolygon)
\*  banana    {"type":"Polygon","coordinates":[[[2,0],[3,0],[3,1],[2,1],[2,0],
\*            [2.5,0.25],[2.25,0.5],[2,0]]]} (the ring of sqB, touching itself
\*            at [2,0]; make_valid gives a Polygon with a hole)
\*  emptyPoly {"type":"Polygon","coordinates":[]}
\*  multiPt   {"type":"MultiPoint","coordinates":[[0.5,0.5],[2.5,0.5]]}
\*  far       {"type":"Polygon","coordinates":[[[8,8],[8,9],[9,9],[9,8],[8,8]]]}
shape(g) ==
    CASE g = "ptA"       -> Geom("Point", FALSE, "none", {1}, "input")
      [] g = "sqB"       -> Geom("Polygon", FALSE, "none", {2}, "input")
      [] g = "bowtie"    -> Geom("Polygon", FALSE, "self_crossing", {1}, "input")
      [] g = "banana"    -> Geom("Polygon", FALSE, "self_touching", {2}, "input")
      [] g = "emptyPoly" -> Geom("Polygon", TRUE, "none", {}, "input")
      [] g = "multiPt"   -> Geom("MultiPoint", FALSE, "none", {1, 2}, "input")
      [] g = "far"       -> Geom("Polygon", FALSE, "none", {3}, "input")

is_valid(geom) == geom.defect = "none"

\* shapely.validation.make_valid: a self-crossing ring splits into several
\* polygons, a self-touching ring becomes a polygon with a hole.
make_valid(geom) ==
    CASE geom.defect = "self_crossing" ->
            [geom EXCEPT !.gtype = "MultiPolygon", !.defect = "none", !.via = "make_valid"]
      [] geom.defect = "self_touching" ->
            [geom EXCEPT !.defect = "none", !.via = "make_valid"]
      [] OTHER -> geom

(***************************************************************************)
(* geometry_utils.py                                                       *)
(***************************************************************************)

\* Mutant: parse_geometry without `else: raise` on an invalid geometry.
parse_geometry_no_raise(geometry_input, fmt, fix_topology) ==
    LET geom == shape(geometry_input) IN
    IF geom.empty
    THEN [err |-> "empty geometry is not allowed", geom |-> geom]
    ELSE [err |-> "", geom |-> IF fix_topology THEN make_valid(geom) ELSE geom]

\* parse_geometry: [err, geom]; err = "" when it returns geom.
parse_geometry(geometry_input, fmt, fix_topology) ==
    IF fmt \notin {"geojson", "wkt", "wkb"}
    THEN [err |-> "unsupported geometry format", geom |-> shape("emptyPoly")]
    ELSE LET geom == shape(geometry_input) IN
         IF geom.empty
         THEN [err |-> "empty geometry is not allowed", geom |-> geom]
         ELSE IF ~is_valid(geom)
              THEN IF fix_topology
                   THEN [err |-> "", geom |-> make_valid(geom)]
                   ELSE [err |-> "invalid geometry topology", geom |-> geom]
              ELSE [err |-> "", geom |-> geom]

\* validate_geometry_type: the message of the ValueError it raises, or "".
validate_geometry_type(geom, allowed_types) ==
    IF geom.gtype \notin allowed_types THEN "Invalid geometry type" ELSE ""

AllowedTypes == {"Point", "LineString", "Polygon"}

(***************************************************************************)
(* Encodings between the working set and the relations                     *)
(***************************************************************************)

\* json.dumps of a dict: a text, here the document it spells.
dumps(d) == [wellformed |-> TRUE, doc |-> d]

\* The JSONB cell a JSON text becomes when it is written to a JSONB column
\* (by the COPY of to_postgis, or as a text parameter of a statement): the
\* object the text spells.  A driver hands it back as a dict.
JsonbObject(text) == [kind |-> "object", doc |-> text.doc]

\* fix_properties in _load.
fix_properties(properties) ==
    CASE properties.kind = "object" -> properties.doc
      [] properties.kind = "string" ->
            IF properties.text.wellformed THEN properties.text.doc ELSE EmptyDict
      [] OTHER -> EmptyDict

\* A geometry cell: EWKB / ST_GeomFromText(wkt, 4326).
Srid == 4326
GeomCell(geom) == [srid |-> Srid, wkb |-> geom]

Ids(rows) == {rows[i].feature_id : i \in 1..Len(rows)}
IdList(rows) == [i \in 1..Len(rows) |-> rows[i].feature_id]
SetMax(S) == CHOOSE m \in S : \A x \in S : x <= m

\* One row of temp_gdf as to_postgis writes it (_save).
to_postgis_row(r) ==
    [feature_id |-> r.feature_id,
     properties |-> JsonbObject(dumps(r.properties)),
     geometry   |-> GeomCell(r.geometry),
     name       |-> r.name]

\* _save: temp_gdf.to_postgis(if_exists="replace").
to_postgis(frame) ==
    [hasName |-> frame.hasName,
     rows |-> [i \in 1..Len(frame.rows) |-> to_postgis_row(frame.rows[i])]]

\* One row as gpd.read_postgis and fix_properties return it (_load).
read_postgis_row(r) ==
    [feature_id |-> r.feature_id,
     properties |-> fix_properties(r.properties),
     geometry   |-> r.geometry.wkb,
     name       |-> r.name]

\* _load without failure: SELECT * FROM features.
read_postgis(table) ==
    [hasName |-> table.hasName,
     rows |-> [i \in 1..Len(table.rows) |-> read_postgis_row(table.rows[i])]]

EmptyFrame == [hasName |-> FALSE, rows |-> <<>>]

(***************************************************************************)
(* Coroutine state                                                         *)
(***************************************************************************)

Ok(v) == [kind |-> "ok", val |-> v, none |-> FALSE, msg |-> ""]
OkNone == [kind |-> "ok", val |-> 0, none |-> TRUE, msg |-> ""]
ValueError(m) == [kind |-> "ValueError", val |-> 0, none |-> FALSE, msg |-> m]
KeyError(m) == [kind |-> "KeyError", val |-> 0, none |-> FALSE, msg |-> m]
IndexingError(m) == [kind |-> "IndexingError", val |-> 0, none |-> FALSE, msg |-> m]
DBAPIError(m) == [kind |-> "DBAPIError", val |-> 0, none |-> FALSE, msg |-> m]
NoRet == [kind |-> "none", val |-> 0, none |-> FALSE, msg |-> ""]

NoCall == [op |-> "none", geom |-> None, props |-> None, fix |-> FALSE,
           fid |-> None, fids |-> None, by |-> "", mask |-> "",
           result_id |-> 0, other |-> <<>>]

Idle == [pc |-> "idle", call |-> NoCall, snap |-> EmptyFrame, geom |-> shape("emptyPoly"),
         temp_gdf |-> EmptyFrame, target |-> <<>>, left |-> EmptyFrame, ref |-> "",
         isin |-> <<>>, idx |-> 0,
         out |-> <<>>, src |-> <<>>, tag |-> SqlNull, params |-> [null |-> TRUE],
         mine |-> <<>>, data |-> <<>>, ret |-> NoRet]

Resting(p) == task[p].pc \in {"idle", "done"}

\* A coroutine that has resumed after `await self.load_from_db()` and is
\* between two statements of the stretch that follows, which has no await.
InSegment(q) == task[q].pc \in {"resumed", "edited"}

\* The event loop runs one coroutine at a time: the code of coroutine p runs
\* only while no other coroutine is inside such a stretch.  Pool threads and
\* the database are not held back.
LoopFree(p) == \A q \in Procs \ {p} : ~InSegment(q)

\* The coroutine whose loaded frame self.gdf names while that coroutine may
\* still write to it in place ("": there is none).
Writer(p) ==
    IF \E q \in Procs \ {p} : InSegment(q)
    THEN CHOOSE q \in Procs \ {p} : InSegment(q)
    ELSE ""

\* The locals of all coroutines after coroutine p, whose own locals become
\* `rec`, has written in place to the frame it loaded, which is now `frame`:
\* a pool thread that holds a reference to that same object (ref = p) sees
\* the write.  `last`: p writes to the object no more.
InPlace(p, frame, rec, last) ==
    [q \in Procs |->
        IF q = p THEN rec
        ELSE IF task[q].ref = p
             THEN [task[q] EXCEPT !.left = frame, !.ref = IF last THEN "" ELSE p]
             ELSE task[q]]

\* The same when p leaves the stretch without a further write to the object.
Release(p, rec) ==
    [q \in Procs |->
        IF q = p THEN rec
        ELSE IF task[q].ref = p THEN [task[q] EXCEPT !.ref = ""]
             ELSE task[q]]

\* A caller may issue a call on a coroutine that is not running; callers that
\* await each call (serialized) use one coroutine at a time.
CanCall(p) ==
    /\ Resting(p)
    /\ LoopFree(p)
    /\ calls < (IF serialized THEN MaxCalls ELSE MaxConcCalls)
    /\ serialized => p = "t1"

\* Bookkeeping at the start of a call.
Begin(p) ==
    /\ calls' = calls + 1
    /\ wrote' = [wrote EXCEPT ![p] = FALSE]
    /\ dbBefore' = [dbBefore EXCEPT ![p] = db]
    /\ resBefore' = [resBefore EXCEPT ![p] = results]
    /\ prevDel' = [prevDel EXCEPT ![p] =
            IF task[p].call.op = "delete" /\ task[p].ret = Ok(TRUE)
            THEN task[p].call.fid ELSE None]

Started(c) == [Idle EXCEPT !.pc = "load", !.call = c]
Raised(c, r) == [Idle EXCEPT !.pc = "done", !.call = c, !.ret = r]

Finish(p, r) == [task[p] EXCEPT !.pc = "done", !.ret = r]

Init ==
    /\ db = EmptyFrame
    /\ results = <<>>
    /\ seq = 0
    /\ gdf = None
    /\ task = [p \in Procs |-> Idle]
    /\ calls = 0
    /\ serialized = TRUE
    /\ wrote = [p \in Procs |-> FALSE]
    /\ dbBefore = [p \in Procs |-> EmptyFrame]
    /\ resBefore = [p \in Procs |-> <<>>]
    /\ addIds = <<>>
    /\ prevDel = [p \in Procs |-> None]
    /\ madeBy = {}

(***************************************************************************)
(* load_from_db / save_to_db                                               *)
(***************************************************************************)

\* _load on a pool thread: the read of the relation.  The assignment
\* self.gdf = ... happens when the coroutine resumes (load_from_db_returns
\* and the *_loaded steps).
load_from_db(p) ==
    /\ task[p].pc = "load"
    /\ task' = [task EXCEPT ![p].pc = "loaded", ![p].snap = read_postgis(db)]
    /\ UNCHANGED <<db, results, seq, gdf, calls, serialized, wrote, dbBefore,
                   resBefore, addIds, prevDel, madeBy>>

\* Lines 127-128 for a method that goes on to write self.gdf (add_feature,
\* update_feature, delete_feature, dissolve): the coroutine resumes, self.gdf
\* becomes the frame _load returned, and load_from_db returns it.
load_from_db_returns(p) ==
    /\ task[p].pc = "loaded"
    /\ task[p].call.op \in {"add", "update", "delete", "dissolve"}
    /\ LoopFree(p)
    /\ gdf' = Some(task[p].snap)
    /\ task' = [task EXCEPT ![p].pc = "resumed"]
    /\ UNCHANGED <<db, results, seq, calls, serialized, wrote, dbBefore, resBefore,
                   addIds, prevDel, madeBy>>

\* _save starts on a pool thread (line 140): temp_gdf is a copy of whatever
\* self.gdf is at that moment.
save_copy(p) ==
    /\ task[p].pc = "save"
    /\ task' = [task EXCEPT ![p].pc = "write", ![p].temp_gdf = gdf[1]]
    /\ UNCHANGED <<db, results, seq, gdf, calls, serialized, wrote, dbBefore,
                   resBefore, addIds, prevDel, madeBy>>

\* _save goes on (lines 141-155): temp_gdf replaces the relation.
save_to_postgis(p) ==
    /\ task[p].pc = "write"
    /\ db' = to_postgis(task[p].temp_gdf)
    /\ wrote' = [wrote EXCEPT ![p] = TRUE]
    /\ task' = [task EXCEPT ![p].pc = "return"]
    /\ UNCHANGED <<results, seq, gdf, calls, serialized, dbBefore, resBefore,
                   addIds, prevDel, madeBy>>

\* The coroutine resumes after its last await (the pool function or the
\* transaction has finished) and the method returns to its caller.
method_returns(p) ==
    /\ task[p].pc = "return"
    /\ LoopFree(p)
    /\ task' = [task EXCEPT ![p].pc = "done"]
    /\ addIds' = IF task[p].call.op = "add" THEN Append(addIds, task[p].ret.val) ELSE addIds
    /\ UNCHANGED <<db, results, seq, gdf, calls, serialized, wrote, dbBefore,
                   resBefore, prevDel, madeBy>>

(***************************************************************************)
(* add_feature                                                             *)
(***************************************************************************)

\* <<geometry, properties, fix_topology>>
AddInputs ==
    {<<"ptA", NameA, FALSE>>, <<"sqB", NestedB, FALSE>>, <<"sqB", NameB, TRUE>>,
     <<"banana", NameA, TRUE>>, <<"banana", NameA, FALSE>>,
     <<"bowtie", NameA, TRUE>>, <<"bowtie", NameA, FALSE>>,
     <<"emptyPoly", NameA, TRUE>>, <<"multiPt", NameA, FALSE>>}

\* Lines 195-198: parse, validate, then call load_from_db.
add_feature(p) ==
    /\ CanCall(p)
    /\ Begin(p)
    /\ \E a \in AddInputs :
         LET c == [NoCall EXCEPT !.op = "add", !.geom = Some(a[1]),
                                 !.props = Some(a[2]), !.fix = a[3]]
             parsed == parse_geometry(a[1], "geojson", a[3])
             bad == IF parsed.err # "" THEN parsed.err
                    ELSE validate_geometry_type(parsed.geom, AllowedTypes)
         IN  IF bad # ""
             THEN /\ task' = [task EXCEPT ![p] = Raised(c, ValueError(bad))]
             ELSE /\ task' = [task EXCEPT ![p] = [Started(c) EXCEPT !.geom = parsed.geom]]
    /\ UNCHANGED <<db, results, seq, gdf, serialized, addIds, madeBy>>

\* Mutant: the id taken from the number of rows.
next_feature_id_by_count(rows) == Len(rows) + 1

\* Line 199: max(feature_id) + 1, or 1 on an empty frame.
next_feature_id(rows) == IF rows # <<>> THEN SetMax(Ids(rows)) + 1 ELSE 1

\* Lines 199-208: feature_id from self.gdf; the row is appended to self.gdf
\* in place; save_to_db hands _save to the pool.
add_feature_loaded(p) ==
    /\ task[p].pc = "resumed"
    /\ task[p].call.op = "add"
    /\ LET frame == gdf[1]
           feature_id == next_feature_id(frame.rows)
           row == [feature_id |-> feature_id, properties |-> task[p].call.props[1],
                   geometry |-> task[p].geom, name |-> "-"]
           appended == [frame EXCEPT !.rows = Append(frame.rows, row)]
       IN  /\ gdf' = Some(appended)
           /\ task' = InPlace(p, appended,
                        [task[p] EXCEPT !.pc = "save", !.ret = Ok(feature_id)], TRUE)
    /\ UNCHANGED <<db, results, seq, calls, serialized, wrote, dbBefore, resBefore,
                   addIds, prevDel, madeBy>>

(***************************************************************************)
(* update_feature                                                          *)
(***************************************************************************)

\* <<feature_id, new_geom, new_properties, fix_topology>>
UpdateInputs ==
    {<<i, u[1], u[2], u[3]>> : i \in {1, 2},
        u \in {<<None, Some(NameB), FALSE>>, <<Some("ptA"), None, FALSE>>,
               <<Some("ptA"), Some(NameB), FALSE>>,
               <<Some("sqB"), Some(EmptyDict), TRUE>>,
               <<Some("bowtie"), Some(NameB), FALSE>>,
               <<Some("emptyPoly"), None, TRUE>>,
               <<Some("multiPt"), Some(NameB), FALSE>>}}

\* Line 216: call load_from_db.
update_feature(p) ==
    /\ CanCall(p)
    /\ Begin(p)
    /\ \E u \in UpdateInputs :
         task' = [task EXCEPT ![p] =
                    Started([NoCall EXCEPT !.op = "update", !.fid = Some(u[1]),
                                !.geom = u[2], !.props = u[3], !.fix = u[4]])]
    /\ UNCHANGED <<db, results, seq, gdf, serialized, addIds, madeBy>>

\* The parameter list save_to_db(update_only=True) builds from self.gdf.
update_params(rows) ==
    [i \in 1..Len(rows) |->
        [geometry |-> [wkt |-> rows[i].geometry],
         properties |-> dumps(rows[i].properties),
         feature_id |-> rows[i].feature_id]]

\* Mutant: the not-found test without `feature_id not in ...`.
feature_missing_if_empty(rows, feature_id) == rows = <<>>

\* Line 217: self.gdf.empty or feature_id not in self.gdf["feature_id"].values.
feature_missing(rows, feature_id) == rows = <<>> \/ feature_id \notin Ids(rows)

\* Line 220: position of the first row with the id (0: there is none).
row_index(rows, feature_id) ==
    IF feature_id \in Ids(rows)
    THEN CHOOSE i \in 1..Len(rows) :
            /\ rows[i].feature_id = feature_id
            /\ \A j \in 1..(i - 1) : rows[j].feature_id # feature_id
    ELSE 0

\* Lines 217-225, and 227-230 with save_to_db lines 161-177 when line 225
\* does not run (no await in between): not-found check, parse, then the
\* first in-place edit of the row; when that was the last edit, the UPDATE
\* parameters are built from self.gdf.
update_feature_loaded(p) ==
    /\ task[p].pc = "resumed"
    /\ task[p].call.op = "update"
    /\ LET c == task[p].call
           frame == gdf[1]
           feature_id == c.fid[1]
           parsed == parse_geometry(c.geom[1], "geojson", c.fix)
           bad == IF c.geom = None THEN ""
                  ELSE IF parsed.err # "" THEN parsed.err
                  ELSE validate_geometry_type(parsed.geom, AllowedTypes)
           idx == row_index(frame.rows, feature_id)
           props == c.props # None /\ DictTruthy(c.props[1])
           r1 == IF c.geom # None
                 THEN [frame.rows[idx] EXCEPT !.geometry = parsed.geom]
                 ELSE IF props THEN [frame.rows[idx] EXCEPT !.properties = c.props[1]]
                 ELSE frame.rows[idx]
           edited == IF idx = 0 THEN frame
                     ELSE [frame EXCEPT !.rows = [frame.rows EXCEPT ![idx] = r1]]
       IN  IF feature_missing(frame.rows, feature_id)
           THEN /\ gdf' = gdf
                /\ task' = Release(p, Finish(p, ValueError("Feature not found")))
           ELSE IF bad # ""
           THEN /\ gdf' = gdf
                /\ task' = Release(p, Finish(p, ValueError(bad)))
           ELSE IF c.geom # None /\ props
           THEN /\ gdf' = Some(edited)
                /\ task' = InPlace(p, edited,
                             [task[p] EXCEPT !.pc = "edited", !.idx = idx], FALSE)
           ELSE /\ gdf' = Some(edited)
                /\ task' = InPlace(p, edited,
                             [task[p] EXCEPT !.pc = "update", !.ret = Ok(feature_id),
                                             !.data = update_params(edited.rows)], TRUE)
    /\ UNCHANGED <<db, results, seq, calls, serialized, wrote, dbBefore, resBefore,
                   addIds, prevDel, madeBy>>

\* Lines 227-230 after line 225 has run, and save_to_db lines 161-177: the
\* second in-place edit of the row, then the UPDATE parameters are built from
\* self.gdf.
update_feature_properties(p) ==
    /\ task[p].pc = "edited"
    /\ LET frame == gdf[1]
           idx == task[p].idx
           edited == [frame EXCEPT !.rows[idx].properties = task[p].call.props[1]]
       IN  /\ gdf' = Some(edited)
           /\ task' = InPlace(p, edited,
                        [task[p] EXCEPT !.pc = "update", !.ret = Ok(task[p].call.fid[1]),
                                        !.data = update_params(edited.rows)], TRUE)
    /\ UNCHANGED <<db, results, seq, calls, serialized, wrote, dbBefore, resBefore,
                   addIds, prevDel, madeBy>>

\* UPDATE features SET geometry, properties WHERE feature_id = :feature_id,
\* for one parameter set.
sql_update(rows, d) ==
    [i \in 1..Len(rows) |->
        IF rows[i].feature_id = d.feature_id
        THEN [rows[i] EXCEPT !.geometry = GeomCell(d.geometry.wkt),
                             !.properties = JsonbObject(d.properties)]
        ELSE rows[i]]

RECURSIVE sql_update_many(_, _)
sql_update_many(rows, data) ==
    IF data = <<>> THEN rows
    ELSE sql_update_many(sql_update(rows, Head(data)), Tail(data))

\* Lines 179-180: conn.execute(sql, data) in one transaction, committed.
save_to_db_update(p) ==
    /\ task[p].pc = "update"
    /\ db' = [db EXCEPT !.rows = sql_update_many(db.rows, task[p].data)]
    /\ wrote' = [wrote EXCEPT ![p] = TRUE]
    /\ task' = [task EXCEPT ![p].pc = "return"]
    /\ UNCHANGED <<results, seq, gdf, calls, serialized, dbBefore, resBefore, addIds,
                   prevDel, madeBy>>

(***************************************************************************)
(* delete_feature                                                          *)
(***************************************************************************)

DeleteInputs == {1, 2}

\* Line 238: call load_from_db.
delete_feature(p) ==
    /\ CanCall(p)
    /\ Begin(p)
    /\ \E i \in DeleteInputs :
         task' = [task EXCEPT ![p] = Started([NoCall EXCEPT !.op = "delete", !.fid = Some(i)])]
    /\ UNCHANGED <<db, results, seq, gdf, serialized, addIds, madeBy>>

\* Mutant: the filter with `<` for `!=`.
drop_feature_and_later(rows, feature_id) ==
    LET Keep(r) == r.feature_id < feature_id IN SelectSeq(rows, Keep)

\* Line 240: self.gdf[self.gdf["feature_id"] != feature_id].
drop_feature(rows, feature_id) ==
    LET Keep(r) == r.feature_id # feature_id IN SelectSeq(rows, Keep)

\* Lines 239-244: self.gdf becomes a new, filtered frame (the loaded one is
\* not written to); compare lengths, save if shorter.
delete_feature_loaded(p) ==
    /\ task[p].pc = "resumed"
    /\ task[p].call.op = "delete"
    /\ LET frame == gdf[1]
           feature_id == task[p].call.fid[1]
           kept == drop_feature(frame.rows, feature_id)
           deleted == Len(kept) < Len(frame.rows)
       IN  /\ gdf' = Some([frame EXCEPT !.rows = kept])
           /\ IF deleted
              THEN /\ task' = Release(p, [task[p] EXCEPT !.pc = "save", !.ret = Ok(TRUE)])
              ELSE /\ task' = Release(p, Finish(p, Ok(FALSE)))
    /\ UNCHANGED <<db, results, seq, calls, serialized, wrote, dbBefore, resBefore,
                   addIds, prevDel, madeBy>>

(***************************************************************************)
(* Writing result rows: the body of `async with self.async_engine.begin()` *)
(***************************************************************************)

\* The row one INSERT INTO analysis_results creates; columns the statement
\* does not name are NULL, result_id comes from the sequence.
result_row(rid, op, ids, params, row) ==
    [result_id |-> rid, operation_type |-> op, source_feature_ids |-> ids,
     parameters |-> params, description |-> SqlNull,
     geometry |-> GeomCell(row.geometry),
     properties |-> JsonbObject(dumps(row.properties))]

NullParams == [null |-> TRUE]

\* One iteration of `for _, row in ...iterrows(): await conn.execute(INSERT ...)`.
insert_row(p) ==
    /\ task[p].pc = "insert"
    /\ task[p].out # <<>>
    /\ seq' = seq + 1
    /\ LET row == Head(task[p].out)
           ids == IF task[p].call.op = "buffer" THEN <<row.feature_id>> ELSE task[p].src
       IN  task' = [task EXCEPT ![p].out = Tail(task[p].out),
                                ![p].mine = Append(task[p].mine,
                                    result_row(seq', task[p].tag, ids, task[p].params, row))]
    /\ wrote' = [wrote EXCEPT ![p] = TRUE]
    /\ madeBy' = madeBy \cup {<<seq', task[p].call.op>>}
    /\ UNCHANGED <<db, results, gdf, calls, serialized, dbBefore, resBefore, addIds,
                   prevDel>>

ResultIds(rows) == {rows[i].result_id : i \in 1..Len(rows)}

\* SELECT MAX(result_id) FROM analysis_results inside the transaction: over
\* the committed rows and the transaction's own; NULL on an empty relation.
select_max(committed, own) ==
    LET visible == ResultIds(committed) \cup ResultIds(own)
    IN  IF visible = {} THEN OkNone ELSE Ok(SetMax(visible))

select_max_result_id(p) ==
    /\ task[p].pc = "insert"
    /\ task[p].out = <<>>
    /\ task' = [task EXCEPT ![p].pc = "commit", ![p].ret = select_max(results, task[p].mine)]
    /\ UNCHANGED <<db, results, seq, gdf, calls, serialized, wrote, dbBefore,
                   resBefore, addIds, prevDel, madeBy>>

\* Leaving the `async with` block commits.
commit(p) ==
    /\ task[p].pc = "commit"
    /\ results' = results \o task[p].mine
    /\ task' = [task EXCEPT ![p].pc = "return"]
    /\ UNCHANGED <<db, seq, gdf, calls, serialized, wrote, dbBefore, resBefore,
                   addIds, prevDel, madeBy>>

(***************************************************************************)
(* buffer                                                                  *)
(***************************************************************************)

\* Truth value of an Optional[int]: None and 0 are false.
IntTruthy(o) == o # None /\ o[1] # 0
\* Truth value of an Optional[list]: None and [] are false.
ListTruthy(o) == o # None /\ o[1] # <<>>

BufferInputs == {None, Some(0), Some(1), Some(2)}

buffer(p) ==
    /\ CanCall(p)
    /\ Begin(p)
    /\ \E f \in BufferInputs :
         task' = [task EXCEPT ![p] = Started([NoCall EXCEPT !.op = "buffer", !.fid = f])]
    /\ UNCHANGED <<db, results, seq, gdf, serialized, addIds, madeBy>>

\* geometry.buffer(distance / 100000.0) with distance > 0.
buffer_geom(geom) == [geom EXCEPT !.gtype = "Polygon", !.via = "buffer"]

\* Line 252: the rows with the id `if feature_id`, else the whole frame.
buffer_target(rows, feature_id) ==
    LET Hit(r) == r.feature_id = feature_id[1]
    IN  IF IntTruthy(feature_id) THEN SelectSeq(rows, Hit) ELSE rows

\* Lines 251-263: self.gdf is the loaded frame; select the target, fail if it
\* is empty, hand _buffer to the pool.
buffer_loaded(p) ==
    /\ task[p].pc = "loaded"
    /\ LoopFree(p)
    /\ task[p].call.op = "buffer"
    /\ LET frame == task[p].snap
           target == buffer_target(frame.rows, task[p].call.fid)
       IN  /\ gdf' = Some(frame)
           /\ IF target = <<>>
              THEN /\ task' = [task EXCEPT ![p] = Finish(p, ValueError("Feature ID not found"))]
              ELSE /\ task' = [task EXCEPT ![p].pc = "buffer", ![p].target = target]
    /\ UNCHANGED <<db, results, seq, calls, serialized, wrote, dbBefore, resBefore,
                   addIds, prevDel, madeBy>>

\* _buffer on a pool thread (lines 257-260): buffers a copy of the local
\* `target`; the coroutine then opens the transaction.
buffer_compute(p) ==
    /\ task[p].pc = "buffer"
    /\ LET target == task[p].target
       IN  task' = [task EXCEPT ![p].pc = "insert",
                       ![p].out = [i \in 1..Len(target) |->
                            [target[i] EXCEPT !.geometry = buffer_geom(target[i].geometry)]],
                       ![p].tag = SqlNull, ![p].params = NullParams]
    /\ UNCHANGED <<db, results, seq, gdf, calls, serialized, wrote, dbBefore,
                   resBefore, addIds, prevDel, madeBy>>

(***************************************************************************)
(* clip                                                                    *)
(***************************************************************************)

ClipInputs == {"bowtie", "far"}

clip(p) ==
    /\ CanCall(p)
    /\ Begin(p)
    /\ \E m \in ClipInputs :
         task' = [task EXCEPT ![p] = Started([NoCall EXCEPT !.op = "clip", !.mask = m])]
    /\ UNCHANGED <<db, results, seq, gdf, serialized, addIds, madeBy>>

\* The coroutine resumes after load_from_db (clip, simplification, union):
\* self.gdf is the loaded frame; the computation is handed to the pool.
analysis_loaded(p) ==
    /\ task[p].pc = "loaded"
    /\ LoopFree(p)
    /\ task[p].call.op \in {"clip", "simplify", "union"}
    /\ gdf' = Some(task[p].snap)
    /\ task' = [task EXCEPT ![p].pc = "compute"]
    /\ UNCHANGED <<db, results, seq, calls, serialized, wrote, dbBefore, resBefore,
                   addIds, prevDel, madeBy>>

\* The orders in which the rows of a frame can come back from a spatial index
\* query that is not asked to sort.
Orderings(rows) ==
    LET n == Len(rows)
        perms == {f \in [1..n -> 1..n] : \A i, j \in 1..n : i # j => f[i] # f[j]}
    IN  {[i \in 1..n |-> rows[f[i]]] : f \in perms}

\* gpd.clip(frame, mask), rows in frame order: the rows that meet the mask;
\* a Point is kept as it is, another geometry is cut to the mask.
gpd_clip(rows, mask) ==
    LET Inside(r) == r.geometry.cells \cap mask.cells # {}
        hit == SelectSeq(rows, Inside)
    IN  [i \in 1..Len(hit) |->
            [hit[i] EXCEPT !.geometry.cells = hit[i].geometry.cells \cap mask.cells,
                           !.geometry.via = "clip"]]

\* _clip on a pool thread, lines 291-293: reads self.gdf as it is then and
\* clips it; gpd.clip(sort=False) returns the rows in the order of its index
\* query.
clip_compute(p) ==
    /\ task[p].pc = "compute"
    /\ task[p].call.op = "clip"
    /\ LET m0 == shape(task[p].call.mask)
           mask == IF ~is_valid(m0) THEN make_valid(m0) ELSE m0
       IN  \E clipped \in Orderings(gpd_clip(gdf[1].rows, mask)) :
             task' = [task EXCEPT ![p].pc = "clip_ids", ![p].out = clipped]
    /\ UNCHANGED <<db, results, seq, gdf, calls, serialized, wrote, dbBefore,
                   resBefore, addIds, prevDel, madeBy>>

\* _clip, line 294: reads self.gdf again, as it is now, for the source ids.
clip_source_ids(p) ==
    /\ task[p].pc = "clip_ids"
    /\ task' = [task EXCEPT ![p].pc = "insert",
                             ![p].src = IdList(gdf[1].rows),
                             ![p].tag = "clip",
                             ![p].params = [clip_geometry |-> task[p].call.mask]]
    /\ UNCHANGED <<db, results, seq, gdf, calls, serialized, wrote, dbBefore,
                   resBefore, addIds, prevDel, madeBy>>

(***************************************************************************)
(* simplification                                                          *)
(***************************************************************************)

SimplifyInputs == {None, Some(<<1, 2>>)}

simplification(p) ==
    /\ CanCall(p)
    /\ Begin(p)
    /\ \E f \in SimplifyInputs :
         task' = [task EXCEPT ![p] = Started([NoCall EXCEPT !.op = "simplify", !.fids = f])]
    /\ UNCHANGED <<db, results, seq, gdf, serialized, addIds, madeBy>>

InList(x, l) == \E i \in 1..Len(l) : l[i] = x

\* _simplify, _dissolve and _union start on a pool thread: self.gdf is read,
\* to be copied at once (self.gdf.copy()), or to be indexed (self.gdf[...])
\* or used as it is (features = self.gdf) later on.  In the last two cases
\* the thread holds the object itself, and sees what the coroutine that
\* loaded it still writes to it in place.
select_frame(p) ==
    /\ task[p].pc = "compute"
    /\ task[p].call.op \in {"simplify", "dissolve", "union"}
    /\ LET listed == ListTruthy(task[p].call.fids)
           held == listed \/ task[p].call.op = "union"
       IN  task' = [task EXCEPT ![p].pc = IF listed THEN "mask" ELSE "select",
                                ![p].left = gdf[1],
                                ![p].ref = IF held THEN Writer(p) ELSE ""]
    /\ UNCHANGED <<db, results, seq, gdf, calls, serialized, wrote, dbBefore,
                   resBefore, addIds, prevDel, madeBy>>

\* self.gdf["feature_id"].isin(feature_ids): self.gdf is read again, as it is
\* now; a boolean Series with one entry per row of that frame.
select_mask(p) ==
    /\ task[p].pc = "mask"
    /\ LET rows == gdf[1].rows
       IN  task' = [task EXCEPT ![p].pc = "select",
                                ![p].isin = [i \in 1..Len(rows) |->
                                    InList(rows[i].feature_id, task[p].call.fids[1])]]
    /\ UNCHANGED <<db, results, seq, gdf, calls, serialized, wrote, dbBefore,
                   resBefore, addIds, prevDel, madeBy>>

\* The rows of `rows` at the positions where `isin` is true; `isin` is at
\* least as long as `rows`.
RECURSIVE take_where(_, _)
take_where(rows, isin) ==
    IF rows = <<>> THEN <<>>
    ELSE (IF Head(isin) THEN <<Head(rows)>> ELSE <<>>)
         \o take_where(Tail(rows), Tail(isin))

\* frame[isin]: the boolean Series is aligned to the index 0..n-1 of the
\* frame; a Series that is shorter than the frame cannot be aligned.
bool_index(rows, isin) ==
    IF Len(isin) < Len(rows)
    THEN [err |-> "Unalignable boolean Series", rows |-> <<>>]
    ELSE [err |-> "", rows |-> take_where(rows, isin)]

\* work_gdf and source_ids as _simplify and _dissolve choose them: `left` is
\* the frame that is indexed or was copied, `isin` the boolean Series.
select_work(left, isin, feature_ids) ==
    LET picked == bool_index(left, isin)
    IN  IF ListTruthy(feature_ids)
        THEN [err |-> picked.err, work |-> picked.rows, source_ids |-> feature_ids[1]]
        ELSE [err |-> "", work |-> left, source_ids |-> IdList(left)]

\* _simplify goes on (lines 329-340); the coroutine then opens the transaction.
simplify_compute(p) ==
    /\ task[p].pc = "select"
    /\ task[p].call.op = "simplify"
    /\ LET sel == select_work(task[p].left.rows, task[p].isin, task[p].call.fids)
       IN  IF sel.err # ""
           THEN task' = [task EXCEPT ![p].pc = "return", ![p].ref = "",
                                     ![p].ret = IndexingError(sel.err)]
           ELSE task' = [task EXCEPT ![p].pc = "insert", ![p].ref = "",
                       ![p].out = [i \in 1..Len(sel.work) |->
                                     [sel.work[i] EXCEPT !.geometry.via = "simplify"]],
                       ![p].src = sel.source_ids,
                       ![p].tag = "simplify",
                       ![p].params = [tolerance |-> "tol", simplify_coverage |-> TRUE,
                                      simplify_boundary |-> TRUE]]
    /\ UNCHANGED <<db, results, seq, gdf, calls, serialized, wrote, dbBefore,
                   resBefore, addIds, prevDel, madeBy>>

(***************************************************************************)
(* dissolve                                                                *)
(***************************************************************************)

\* <<by, feature_ids>>
DissolveInputs == {<<"name", None>>, <<"feature_id", None>>, <<"name", Some(<<1>>)>>}

dissolve(p) ==
    /\ CanCall(p)
    /\ Begin(p)
    /\ \E d \in DissolveInputs :
         task' = [task EXCEPT ![p] =
                    Started([NoCall EXCEPT !.op = "dissolve", !.by = d[1], !.fids = d[2]])]
    /\ UNCHANGED <<db, results, seq, gdf, serialized, addIds, madeBy>>

HasColumn(frame, by) ==
    by \in {"feature_id", "properties", "geometry"} \/ (by = "name" /\ frame.hasName)

\* p.get("properties", {}).get(by) for by = "name"; "-" is None.
nested_get(properties) == properties.nested

\* Lines 374-378: a column `by` is added in place to self.gdf when it has
\* none; _dissolve is handed to the pool.
dissolve_loaded(p) ==
    /\ task[p].pc = "resumed"
    /\ task[p].call.op = "dissolve"
    /\ LET frame == gdf[1]
           extracted == [hasName |-> TRUE,
                         rows |-> [i \in 1..Len(frame.rows) |->
                            [frame.rows[i] EXCEPT !.name = nested_get(frame.rows[i].properties)]]]
       IN  IF HasColumn(frame, task[p].call.by)
           THEN /\ gdf' = gdf
                /\ task' = Release(p, [task[p] EXCEPT !.pc = "compute"])
           ELSE /\ gdf' = Some(extracted)
                /\ task' = InPlace(p, extracted, [task[p] EXCEPT !.pc = "compute"], TRUE)
    /\ UNCHANGED <<db, results, seq, calls, serialized, wrote, dbBefore, resBefore,
                   addIds, prevDel, madeBy>>

\* The key of a row under `by`; "-" is a null key.
KeyOf(r, by) == IF by = "feature_id" THEN r.feature_id ELSE r.name

\* Sort order of the group keys (groupby sorts them).
Rank(k, by) == IF by = "feature_id" THEN k ELSE IF k = "A" THEN 1 ELSE 2

RECURSIVE SortKeys(_, _)
SortKeys(K, by) ==
    IF K = {} THEN <<>>
    ELSE LET least == CHOOSE k \in K : \A j \in K : Rank(k, by) <= Rank(j, by)
         IN  <<least>> \o SortKeys(K \ {least}, by)

\* The non-null keys present in the rows (groupby drops null keys).
GroupKeys(work, by) ==
    IF by = "feature_id" THEN Ids(work)
    ELSE {work[i].name : i \in 1..Len(work)} \ {"-"}

\* unary_union of the geometries of some rows (at least one).  The stored
\* geometries are Points and Polygons, each inside one cell, and those of one
\* cell and type meet: Points of one cell are one Point, of several cells a
\* MultiPoint; Polygons of one cell merge into a Polygon, of several cells
\* they are a MultiPolygon; Points with Polygons are a GeometryCollection.
union_geom(rows) ==
    LET types == {rows[i].geometry.gtype : i \in 1..Len(rows)}
        cells == UNION {rows[i].geometry.cells : i \in 1..Len(rows)}
        gtype == CASE Len(rows) = 1 -> rows[1].geometry.gtype
                   [] Len(rows) > 1 /\ types = {"Point"} ->
                        IF Cardinality(cells) = 1 THEN "Point" ELSE "MultiPoint"
                   [] Len(rows) > 1 /\ types = {"Polygon"} ->
                        IF Cardinality(cells) = 1 THEN "Polygon" ELSE "MultiPolygon"
                   [] OTHER -> "GeometryCollection"
    IN  Geom(gtype, FALSE, "none", cells, "union")

\* work_gdf.dissolve(by=by, as_index=False): one row per non-null key, in key
\* order; the other columns keep the group's first value.
gpd_dissolve(work, by) ==
    LET keys == SortKeys(GroupKeys(work, by), by)
        Group(k) == LET InGroup(r) == KeyOf(r, by) = k IN SelectSeq(work, InGroup)
    IN  [i \in 1..Len(keys) |->
            [Group(keys[i])[1] EXCEPT !.geometry = union_geom(Group(keys[i]))]]

\* _dissolve goes on (lines 381-388); work_gdf has the columns of the frame
\* read first.  The coroutine then opens the transaction.
dissolve_compute(p) ==
    /\ task[p].pc = "select"
    /\ task[p].call.op = "dissolve"
    /\ LET by == task[p].call.by
           sel == select_work(task[p].left.rows, task[p].isin, task[p].call.fids)
       IN  IF sel.err # ""
           THEN /\ task' = [task EXCEPT ![p].pc = "return", ![p].ref = "",
                                        ![p].ret = IndexingError(sel.err)]
           ELSE IF ~HasColumn(task[p].left, by)
           THEN /\ task' = [task EXCEPT ![p].pc = "return", ![p].ref = "",
                                        ![p].ret = KeyError(by)]
           ELSE /\ task' = [task EXCEPT ![p].pc = "insert", ![p].ref = "",
                               ![p].out = gpd_dissolve(sel.work, by),
                               ![p].src = sel.source_ids,
                               ![p].tag = "dissolve",
                               ![p].params = [dissolve_by |-> by]]
    /\ UNCHANGED <<db, results, seq, gdf, calls, serialized, wrote, dbBefore,
                   resBefore, addIds, prevDel, madeBy>>

(***************************************************************************)
(* union                                                                   *)
(***************************************************************************)

UnionInputs == {None, Some(<<>>), Some(<<1>>), Some(<<9>>)}

\* Line 416: call load_from_db.
union(p) ==
    /\ CanCall(p)
    /\ Begin(p)
    /\ \E f \in UnionInputs :
         task' = [task EXCEPT ![p] = Started([NoCall EXCEPT !.op = "union", !.fids = f])]
    /\ UNCHANGED <<db, results, seq, gdf, serialized, addIds, madeBy>>

\* Lines 419-422: the listed rows `if feature_ids`, else the whole frame.
union_features(left, isin, feature_ids) ==
    IF ListTruthy(feature_ids) THEN bool_index(left, isin)
    ELSE [err |-> "", rows |-> left]

\* _union goes on (lines 419-425): None for no features, else their
\* unary_union; the method returns what _union returned.
union_compute(p) ==
    /\ task[p].pc = "select"
    /\ task[p].call.op = "union"
    /\ LET features == union_features(task[p].left.rows, task[p].isin, task[p].call.fids)
           ret == IF features.err # "" THEN IndexingError(features.err)
                  ELSE IF Len(features.rows) = 0 THEN OkNone
                  ELSE Ok(union_geom(features.rows))
       IN  task' = [task EXCEPT ![p].pc = "return", ![p].ref = "", ![p].ret = ret]
    /\ UNCHANGED <<db, results, seq, gdf, calls, serialized, wrote, dbBefore,
                   resBefore, addIds, prevDel, madeBy>>

(***************************************************************************)
(* nearest_neighbor                                                        *)
(***************************************************************************)

NearestInputs == {"ptA", "far"}

\* Line 433: call load_from_db.
nearest_neighbor(p) ==
    /\ CanCall(p)
    /\ Begin(p)
    /\ \E g \in NearestInputs :
         task' = [task EXCEPT ![p] = Started([NoCall EXCEPT !.op = "nearest", !.geom = Some(g)])]
    /\ UNCHANGED <<db, results, seq, gdf, serialized, addIds, madeBy>>

\* Lines 433-435: self.gdf is the loaded frame; None when it is empty, else
\* _nearest is handed to the pool.
nearest_neighbor_loaded(p) ==
    /\ task[p].pc = "loaded"
    /\ LoopFree(p)
    /\ task[p].call.op = "nearest"
    /\ gdf' = Some(task[p].snap)
    /\ IF task[p].snap.rows = <<>>
       THEN task' = [task EXCEPT ![p] = Finish(p, OkNone)]
       ELSE task' = [task EXCEPT ![p].pc = "compute"]
    /\ UNCHANGED <<db, results, seq, calls, serialized, wrote, dbBefore, resBefore,
                   addIds, prevDel, madeBy>>

\* Distance between two geometries, in tenths of a degree between the cells
\* they lie in (geometries of one cell meet); the projection to EPSG:32636
\* keeps the order of these distances.
distance(a, b) ==
    LET pair == a.cells \cup b.cells
    IN  CASE a.cells \cap b.cells # {} -> 0
          [] pair = {1, 2} -> 15
          [] pair = {2, 3} -> 86
          [] pair = {1, 3} -> 106
          [] OTHER -> 0

\* distances.idxmin(): the first position where the distance is least.
idxmin(rows, geom) ==
    CHOOSE i \in 1..Len(rows) :
        /\ \A j \in 1..Len(rows) :
              distance(rows[i].geometry, geom) <= distance(rows[j].geometry, geom)
        /\ \A j \in 1..(i - 1) :
              distance(rows[j].geometry, geom) > distance(rows[i].geometry, geom)

\* _nearest on a pool thread, lines 438-444: reads self.gdf as it is then;
\* idxmin of no distances raises ValueError.
nearest_compute(p) ==
    /\ task[p].pc = "compute"
    /\ task[p].call.op = "nearest"
    /\ LET g0 == shape(task[p].call.geom[1])
           geom == IF ~is_valid(g0) THEN make_valid(g0) ELSE g0
       IN  IF gdf[1].rows = <<>>
           THEN task' = [task EXCEPT ![p].pc = "return",
                            ![p].ret = ValueError("attempt to get argmin of an empty sequence")]
           ELSE task' = [task EXCEPT ![p].pc = "nearest_row",
                            ![p].idx = idxmin(gdf[1].rows, geom)]
    /\ UNCHANGED <<db, results, seq, gdf, calls, serialized, wrote, dbBefore,
                   resBefore, addIds, prevDel, madeBy>>

\* _nearest, lines 445-451: reads self.gdf again, as it is now; .loc[idx]
\* raises KeyError when the frame has no such row.  The result names the row
\* (the metric distance is left out).
nearest_row(p) ==
    /\ task[p].pc = "nearest_row"
    /\ LET rows == gdf[1].rows
           idx == task[p].idx
       IN  IF idx > Len(rows)
           THEN task' = [task EXCEPT ![p].pc = "return", ![p].ret = KeyError("idx")]
           ELSE task' = [task EXCEPT ![p].pc = "return",
                            ![p].ret = Ok([feature_id |-> rows[idx].feature_id,
                                           properties |-> rows[idx].properties,
                                           geometry |-> rows[idx].geometry])]
    /\ UNCHANGED <<db, results, seq, gdf, calls, serialized, wrote, dbBefore,
                   resBefore, addIds, prevDel, madeBy>>

(***************************************************************************)
(* spatial_join                                                            *)
(***************************************************************************)

\* other_gdf: the geometries of its rows.
SpatialJoinInputs == {<<>>, <<"ptA">>, <<"sqB", "far">>}

\* Line 458: call load_from_db.
spatial_join(p) ==
    /\ CanCall(p)
    /\ Begin(p)
    /\ \E o \in SpatialJoinInputs :
         task' = [task EXCEPT ![p] = Started([NoCall EXCEPT !.op = "spatial_join", !.other = o])]
    /\ UNCHANGED <<db, results, seq, gdf, serialized, addIds, madeBy>>

\* Lines 458-460: self.gdf is the loaded frame; an empty frame is returned
\* when it or other_gdf is empty, else _join is handed to the pool.
spatial_join_loaded(p) ==
    /\ task[p].pc = "loaded"
    /\ LoopFree(p)
    /\ task[p].call.op = "spatial_join"
    /\ gdf' = Some(task[p].snap)
    /\ IF task[p].snap.rows = <<>> \/ task[p].call.other = <<>>
       THEN task' = [task EXCEPT ![p] = Finish(p, Ok({}))]
       ELSE task' = [task EXCEPT ![p].pc = "join"]
    /\ UNCHANGED <<db, results, seq, calls, serialized, wrote, dbBefore, resBefore,
                   addIds, prevDel, madeBy>>

\* gpd.sjoin(frame, other, how="inner", predicate="intersects"): the pairs
\* <<feature_id, position in other>> of rows that meet (as a set).
sjoin(rows, other) ==
    LET pairs == {ij \in (1..Len(rows)) \X (1..Len(other)) :
                    rows[ij[1]].geometry.cells \cap shape(other[ij[2]]).cells # {}}
    IN  {<<rows[ij[1]].feature_id, ij[2]>> : ij \in pairs}

\* _join on a pool thread (lines 462-463): reads self.gdf as it is then.
spatial_join_compute(p) ==
    /\ task[p].pc = "join"
    /\ task' = [task EXCEPT ![p].pc = "return",
                             ![p].ret = Ok(sjoin(gdf[1].rows, task[p].call.other))]
    /\ UNCHANGED <<db, results, seq, gdf, calls, serialized, wrote, dbBefore,
                   resBefore, addIds, prevDel, madeBy>>

(***************************************************************************)
(* delete_analysis_result                                                  *)
(***************************************************************************)

DeleteResultInputs == {1, 2}

\* Line 488: open the transaction.
delete_analysis_result(p) ==
    /\ CanCall(p)
    /\ Begin(p)
    /\ \E r \in DeleteResultInputs :
         task' = [task EXCEPT ![p] =
                    [Idle EXCEPT !.pc = "delete_result",
                                 !.call = [NoCall EXCEPT !.op = "delete_result",
                                                         !.result_id = r]]]
    /\ UNCHANGED <<db, results, seq, gdf, serialized, addIds, madeBy>>

\* Lines 489-493: DELETE FROM analysis_results WHERE result_id = :id, the
\* result is rowcount > 0, and leaving the block commits.
sql_delete_result(p) ==
    /\ task[p].pc = "delete_result"
    /\ LET Keep(r) == r.result_id # task[p].call.result_id
           kept == SelectSeq(results, Keep)
       IN  /\ results' = kept
           /\ wrote' = [wrote EXCEPT ![p] = Len(kept) < Len(results)]
           /\ task' = [task EXCEPT ![p].pc = "return",
                                    ![p].ret = Ok(Len(kept) < Len(results))]
    /\ UNCHANGED <<db, seq, gdf, calls, serialized, dbBefore, resBefore, addIds,
                   prevDel, madeBy>>

(***************************************************************************)
(* gis_router.py: the responses of the update and delete routes            *)
(***************************************************************************)

HTTPException(code, text) == [status |-> code, detail |-> text]

\* PUT /feature/{feature_id}/update (lines 50-61) for an outcome of
\* gis.update_feature: any ValueError becomes 404, any other exception 500.
update_feature_route(ret) ==
    CASE ret.kind = "ok" -> [status |-> 200, detail |-> "success"]
      [] ret.kind = "ValueError" -> HTTPException(404, ret.msg)
      [] OTHER -> HTTPException(500, "Update feature failed")

\* DELETE /feature/{feature_id}/delete (lines 74-80) for an outcome of
\* gis.delete_feature: the HTTPException(404) raised inside the try block is
\* caught by `except Exception` and raised again as 500.
delete_feature_route(ret) ==
    LET raised == IF ret.kind = "ok" /\ ret.val = FALSE
                  THEN <<HTTPException(404, "Feature not found")>>
                  ELSE IF ret.kind = "ok" THEN <<>>
                  ELSE <<ret>>
    IN  IF raised = <<>> THEN [status |-> 200, detail |-> "success"]
        ELSE HTTPException(500, "Delete failed")

Next ==
    \E p \in Procs :
        \/ load_from_db(p)
        \/ load_from_db_returns(p)
        \/ save_copy(p)
        \/ save_to_postgis(p)
        \/ method_returns(p)
        \/ add_feature(p)
        \/ add_feature_loaded(p)
        \/ update_feature(p)
        \/ update_feature_loaded(p)
        \/ update_feature_properties(p)
        \/ save_to_db_update(p)
        \/ delete_feature(p)
        \/ delete_feature_loaded(p)
        \/ buffer(p)
        \/ buffer_loaded(p)
        \/ clip(p)
        \/ simplification(p)
        \/ analysis_loaded(p)
        \/ clip_compute(p)
        \/ simplify_compute(p)
        \/ dissolve(p)
        \/ dissolve_loaded(p)
        \/ dissolve_compute(p)
        \/ insert_row(p)
        \/ select_max_result_id(p)
        \/ commit(p)
        \/ union(p)
        \/ union_compute(p)
        \/ buffer_compute(p)
        \/ clip_source_ids(p)
        \/ select_frame(p)
        \/ select_mask(p)
        \/ nearest_neighbor(p)
        \/ nearest_neighbor_loaded(p)
        \/ nearest_compute(p)
        \/ nearest_row(p)
        \/ spatial_join(p)
        \/ spatial_join_loaded(p)
        \/ spatial_join_compute(p)
        \/ delete_analysis_result(p)
        \/ sql_delete_result(p)

Spec == Init /\ [][Next]_vars

\* Callers that do not await a call before issuing the next one, on a store
\* that already holds what two add_feature calls left there.
SeedFrame ==
    [hasName |-> FALSE,
     rows |-> <<[feature_id |-> 1, properties |-> NameA,
                 geometry |-> shape("ptA"), name |-> "-"],
                [feature_id |-> 2, properties |-> NestedB,
                 geometry |-> shape("sqB"), name |-> "-"]>>]

InitConc ==
    /\ db \in {EmptyFrame, to_postgis(SeedFrame)}
    /\ results = <<>>
    /\ seq = 0
    /\ gdf = None
    /\ task = [p \in Procs |-> Idle]
    /\ calls = 0
    /\ serialized = FALSE
    /\ wrote = [p \in Procs |-> FALSE]
    /\ dbBefore = [p \in Procs |-> EmptyFrame]
    /\ resBefore = [p \in Procs |-> <<>>]
    /\ addIds = <<>>
    /\ prevDel = [p \in Procs |-> None]
    /\ madeBy = {}

SpecConc == InitConc /\ [][Next]_vars

(***************************************************************************)
(* Faults of the backing store                                             *)
(***************************************************************************)

\* _load when gpd.read_postgis raises (lines 120-124): the exception is
\* swallowed and an empty frame is returned in place of the relation.
load_from_db_fails(p) ==
    /\ task[p].pc = "load"
    /\ task' = [task EXCEPT ![p].pc = "loaded", ![p].snap = EmptyFrame]
    /\ UNCHANGED <<db, results, seq, gdf, calls, serialized, wrote, dbBefore,
                   resBefore, addIds, prevDel, madeBy>>

\* Mutant: the rows inserted before the failure stay.
rollback_keeps_rows(committed, own) == committed \o own

\* Leaving `async with self.async_engine.begin()` by an exception rolls the
\* transaction back: the relation is what was committed.
rollback(committed, own) == committed

\* An INSERT of the loop raises (the row is refused, the connection drops):
\* the exception leaves the `async with` block and the method.  The rows
\* executed so far stay in `mine` as a record of what the call had inserted;
\* the sequence values they took are not given back.
insert_fails(p) ==
    /\ task[p].pc = "insert"
    /\ task[p].out # <<>>
    /\ results' = rollback(results, task[p].mine)
    /\ task' = [task EXCEPT ![p] = Finish(p, DBAPIError("INSERT failed"))]
    /\ UNCHANGED <<db, seq, gdf, calls, serialized, wrote, dbBefore, resBefore,
                   addIds, prevDel, madeBy>>

\* The operations, and the faults of the store.
NextFail ==
    \/ Next
    \/ \E p \in Procs : load_from_db_fails(p)
    \/ \E p \in Procs : insert_fails(p)

\* Callers that await each call, on a store that can fail.
SpecFail == Init /\ [][NextFail]_vars

(***************************************************************************)
(* Properties                                                              *)
(***************************************************************************)

\* A full read of the store: what load_from_db returns.
View(table) == read_postgis(table).rows

Done(p, op) == task[p].pc = "done" /\ task[p].call.op = op
Returned(p, op) == Done(p, op) /\ task[p].ret.kind = "ok"

Distinct(s) == \A i, j \in 1..Len(s) : i # j => s[i] # s[j]
Increasing(s) == \A i, j \in 1..Len(s) : i < j => s[i] < s[j]
IsPrefix(s, t) == Len(s) <= Len(t) /\ \A i \in 1..Len(s) : s[i] = t[i]
Occurrences(rows, id) == Cardinality({i \in 1..Len(rows) : rows[i].feature_id = id})

\* C1: add_feature returns 1 when the collection it loaded is empty and the
\* largest loaded feature_id plus one otherwise; no two persisted features
\* share a feature_id; and no two completed add_feature calls have returned
\* the same id -- also when the calls overlap.
C1_UniqueIdsUnderConcurrency ==
    /\ \A p \in Procs : Returned(p, "add") =>
          task[p].ret.val = IF task[p].snap.rows = <<>> THEN 1
                            ELSE SetMax(Ids(task[p].snap.rows)) + 1
    /\ Distinct(IdList(db.rows))
    /\ Distinct(addIds)

\* C2: after add_feature(g, p) with a valid Point/LineString/Polygon g has
\* returned id to a caller that awaits each call, a full read holds exactly one
\* feature with that id, its geometry is g and its properties are p, and every
\* feature read before the call is still read, unchanged.
C2_AddRoundTrip ==
    \A p \in Procs :
        (Returned(p, "add") /\ is_valid(shape(task[p].call.geom[1]))) =>
            LET now == View(db)
                before == View(dbBefore[p])
                id == task[p].ret.val
            IN  /\ Occurrences(now, id) = 1
                /\ \A i \in 1..Len(now) : now[i].feature_id = id =>
                      /\ now[i].geometry = shape(task[p].call.geom[1])
                      /\ now[i].properties = task[p].call.props[1]
                /\ \A j \in 1..Len(before) : \E i \in 1..Len(now) : now[i] = before[j]
                /\ Len(now) = Len(before) + 1

\* C2 witness: an add of a valid polygon has returned on a store that already
\* held a feature.
C2_Witness ==
    \E p \in Procs :
        /\ Returned(p, "add")
        /\ task[p].call.geom = Some("sqB")
        /\ View(dbBefore[p]) # <<>>
        /\ task[p].ret.val = 2

\* C3: delete_feature(id) on an id no feature has returns False, issues no
\* write and leaves the relation as it was; on an id a feature has it returns
\* True and a full read then holds the earlier rows without that one, the
\* others unchanged; a delete_feature(id) right after one that returned True
\* returns False.
C3_Delete ==
    \A p \in Procs :
        Done(p, "delete") =>
            LET before == View(dbBefore[p])
                id == task[p].call.fid[1]
                Other(r) == r.feature_id # id
            IN  /\ id \notin Ids(before) =>
                      /\ task[p].ret = Ok(FALSE)
                      /\ db = dbBefore[p]
                      /\ ~wrote[p]
                /\ id \in Ids(before) =>
                      /\ task[p].ret = Ok(TRUE)
                      /\ View(db) = SelectSeq(before, Other)
                      /\ Len(View(db)) = Len(before) - 1
                /\ prevDel[p] = Some(id) => task[p].ret = Ok(FALSE)

\* C3 witness: the second of two delete_feature calls with the same id has
\* returned False, with another feature still stored.
C3_Witness ==
    \E p \in Procs :
        /\ Done(p, "delete")
        /\ prevDel[p] = task[p].call.fid
        /\ task[p].ret = Ok(FALSE)
        /\ db.rows # <<>>

\* C4: update_feature on an id no feature has raises "Feature not found" and
\* leaves both relations as they were, with no write issued, whatever
\* geometry, properties and fix_topology it is given.
C4_UpdateNotFound ==
    \A p \in Procs :
        (Done(p, "update") /\ task[p].call.fid[1] \notin Ids(View(dbBefore[p]))) =>
            /\ task[p].ret = ValueError("Feature not found")
            /\ db = dbBefore[p]
            /\ results = resBefore[p]
            /\ ~wrote[p]

\* C4 witness: update_feature with an unknown id and an invalid geometry has
\* raised not-found on a store that holds another feature.
C4_Witness ==
    \E p \in Procs :
        /\ Done(p, "update")
        /\ task[p].call.fid = Some(2)
        /\ task[p].call.geom = Some("bowtie")
        /\ Ids(View(db)) = {1}
        /\ task[p].ret = ValueError("Feature not found")

\* A geometry add_feature and update_feature must refuse.
Refused(g, fix_topology) ==
    \/ shape(g).empty
    \/ ~is_valid(shape(g)) /\ ~fix_topology
    \/ shape(g).gtype \notin AllowedTypes

\* C5: a call of add_feature or update_feature that is given an empty
\* geometry, an invalid one with fix_topology false, or one of a type other
\* than Point, LineString, Polygon never writes to either relation, and ends
\* by raising an error.
C5_FailFast ==
    \A p \in Procs :
        (/\ task[p].call.op \in {"add", "update"}
         /\ task[p].call.geom # None
         /\ Refused(task[p].call.geom[1], task[p].call.fix)) =>
            /\ ~wrote[p]
            /\ task[p].pc = "done" =>
                  /\ task[p].ret.kind = "ValueError"
                  /\ db = dbBefore[p]
                  /\ results = resBefore[p]

\* C5 witness: update_feature of a stored feature with a self-crossing polygon
\* and fix_topology false has raised the topology error.
C5_Witness ==
    \E p \in Procs :
        /\ Done(p, "update")
        /\ task[p].call.geom = Some("bowtie")
        /\ ~task[p].call.fix
        /\ task[p].call.fid[1] \in Ids(View(db))
        /\ task[p].ret = ValueError("invalid geometry topology")

\* C6: the ids returned by add_feature to a caller that awaits each call are
\* strictly increasing, whatever delete_feature calls come in between.
C6_MonotonicIds == serialized => Increasing(addIds)

Persisting == {"buffer", "clip", "simplify", "dissolve"}

\* C7: a buffer, clip, simplification or dissolve call that returns has only
\* appended to the catalog, and the result_id it returns is that of a row the
\* call itself inserted.
C7_ReturnsOwnRow ==
    \A p \in Procs :
        (task[p].pc = "done" /\ task[p].call.op \in Persisting
            /\ task[p].ret.kind = "ok") =>
            /\ IsPrefix(resBefore[p], results)
            /\ ~task[p].ret.none
            /\ task[p].ret.val \in ResultIds(task[p].mine)

\* C8: every catalog row has an operation_type and parameters, and the
\* operation_type names the operation whose INSERT created the row.
C8_RowsTagged ==
    \A i \in 1..Len(results) :
        /\ results[i].operation_type # SqlNull
        /\ results[i].parameters # NullParams
        /\ <<results[i].result_id, results[i].operation_type>> \in madeBy

\* The feature ids an operation considers: those of the loaded snapshot when
\* no selection is passed, those of the selected features otherwise (for
\* buffer a feature_id of 0 is read here as the code reads it; C10 is about
\* that reading).
Considered(p) ==
    LET c == task[p].call
        all == Ids(task[p].snap.rows)
    IN  CASE c.op = "buffer" -> IF IntTruthy(c.fid) THEN all \cap {c.fid[1]} ELSE all
          [] c.op = "clip" -> all
          [] OTHER -> IF c.fids = None THEN all
                      ELSE all \cap {c.fids[1][i] : i \in 1..Len(c.fids[1])}

\* C9: source_feature_ids of every row a persisting call inserts is the set
\* of feature ids the call considered.
C9_SourceIds ==
    \A p \in Procs :
        (serialized /\ task[p].call.op \in Persisting) =>
            \A i \in 1..Len(task[p].mine) :
                LET ids == task[p].mine[i].source_feature_ids
                IN  {ids[k] : k \in 1..Len(ids)} = Considered(p)

\* C10: buffer with a feature_id that no feature has raises not-found and
\* writes nothing to the catalog, for every integer feature_id, 0 included;
\* without a feature_id it inserts one row per feature of the store.
C10_BufferNotFound ==
    \A p \in Procs :
        Done(p, "buffer") =>
            LET before == View(dbBefore[p])
                fid == task[p].call.fid
            IN  /\ (fid # None /\ fid[1] \notin Ids(before)) =>
                      /\ task[p].ret.kind = "ValueError"
                      /\ results = resBefore[p]
                      /\ ~wrote[p]
                /\ (fid = None /\ task[p].ret.kind = "ok") =>
                      [i \in 1..Len(task[p].mine) |->
                          task[p].mine[i].source_feature_ids] =
                      [i \in 1..Len(before) |-> <<before[i].feature_id>>]

\* Two geometries that are the same shape, whatever operation produced them.
SameShape(a, b) == a.gtype = b.gtype /\ a.cells = b.cells /\ a.empty = b.empty

\* The features a call selects from the store it started on: all of them when
\* no list is passed, those whose id is in the list otherwise ([] selects none).
Selected(p) ==
    LET before == View(dbBefore[p])
        fids == task[p].call.fids
        Listed(r) == InList(r.feature_id, fids[1])
    IN  IF fids = None THEN before ELSE SelectSeq(before, Listed)

\* C11: for a caller that awaits each call, union returns None exactly when
\* the selection is empty (union([]), a list of ids no feature has, union()
\* on an empty store); for a list of one stored id it returns that feature's
\* geometry; and it writes to neither relation.
C11_Union ==
    \A p \in Procs :
        (serialized /\ Done(p, "union")) =>
            /\ task[p].ret.kind = "ok"
            /\ task[p].ret.none <=> Selected(p) = <<>>
            /\ (Len(Selected(p)) = 1 /\ ~task[p].ret.none) =>
                  SameShape(task[p].ret.val, Selected(p)[1].geometry)
            /\ db = dbBefore[p]
            /\ results = resBefore[p]
            /\ ~wrote[p]

\* C12: for a caller that awaits each call, a dissolve(by) that returns has
\* inserted exactly one row per distinct value of `by` among its input
\* features -- the value being the top-level column `by` when the store has
\* one and the key `by` of the feature's properties mapping otherwise -- and
\* every input feature that has a value lies inside the geometry of some
\* inserted row.
C12_DissolveGroups ==
    \A p \in Procs :
        (serialized /\ Done(p, "dissolve") /\ task[p].ret.kind = "ok") =>
            LET input == Selected(p)
                by == task[p].call.by
                rows == task[p].mine
                Val(r) == IF by = "feature_id" THEN r.feature_id
                          ELSE IF dbBefore[p].hasName THEN r.name
                          ELSE r.properties.name
                valued == {i \in 1..Len(input) : by = "feature_id" \/ Val(input[i]) # "-"}
            IN  /\ Len(rows) = Cardinality({Val(input[i]) : i \in valued})
                /\ \A i \in valued : \E k \in 1..Len(rows) :
                      input[i].geometry.cells \subseteq rows[k].geometry.wkb.cells

\* C13: for a caller that awaits each call, the update route answers "missing
\* resource" (404) exactly when the id is absent, and answers an update of a
\* stored id with a refused geometry by a client validation error that is not
\* 404; the delete route answers a delete of an absent id with 404.
C13_NotFoundDistinct ==
    \A p \in Procs :
        /\ (serialized /\ Done(p, "update")) =>
              LET c == task[p].call
                  absent == c.fid[1] \notin Ids(View(dbBefore[p]))
                  resp == update_feature_route(task[p].ret)
              IN  /\ resp.status = 404 <=> absent
                  /\ (~absent /\ c.geom # None /\ Refused(c.geom[1], c.fix)) =>
                        resp.status \in {400, 422}
        /\ (serialized /\ Done(p, "delete")) =>
              (task[p].call.fid[1] \notin Ids(View(dbBefore[p])) =>
                    delete_feature_route(task[p].ret).status = 404)

\* The stored row of the id an update_feature call was given carries what the
\* call supplied: the parsed geometry, the properties.
Applied(p) ==
    LET c == task[p].call
        now == View(db)
    IN  \A i \in 1..Len(now) : now[i].feature_id = c.fid[1] =>
            /\ c.geom # None =>
                  now[i].geometry = parse_geometry(c.geom[1], "geojson", c.fix).geom
            /\ (c.props # None /\ DictTruthy(c.props[1])) =>
                  now[i].properties = c.props[1]

\* C15: once update_feature(a, ...) and update_feature(b, ...) with a # b
\* have both returned, overlapping or not, the store holds the new values of
\* both rows: neither call has written an older copy of the other's row back.
C15_TargetedUpdate ==
    \A p, q \in Procs :
        (/\ p # q
         /\ Returned(p, "update")
         /\ Returned(q, "update")
         /\ task[p].call.fid # task[q].call.fid) =>
            Applied(p) /\ Applied(q)

\* The feature an add_feature call created is read from the store under the
\* id the call returned.
Stored(p) ==
    LET now == View(db)
    IN  \E i \in 1..Len(now) :
            /\ now[i].feature_id = task[p].ret.val
            /\ now[i].geometry = task[p].geom
            /\ now[i].properties = task[p].call.props[1]

\* C16: once an add_feature call and another add_feature call, or a
\* delete_feature call of a different id, have both returned successfully,
\* overlapping or not, the store holds the feature the add_feature call
\* created.
C16_NoLostFeature ==
    \A p, q \in Procs :
        (/\ p # q
         /\ Returned(p, "add")
         /\ \/ Returned(q, "add")
            \/ Returned(q, "delete") /\ task[q].call.fid[1] # task[p].ret.val) =>
            Stored(p)

\* A persisting call has ended by a failed INSERT.
WriteFailed(p) ==
    /\ task[p].pc = "done"
    /\ task[p].call.op \in Persisting
    /\ task[p].ret.kind = "DBAPIError"

\* C14 as stated: after a persisting call has failed with some of its rows
\* inserted, rows it had inserted are in the catalog.
C14_PartialRowsRemain ==
    \A p \in Procs :
        (WriteFailed(p) /\ task[p].mine # <<>>) =>
            \E i \in 1..Len(task[p].mine) :
                task[p].mine[i].result_id \in ResultIds(results)

\* C14, amended: after a persisting call has failed, whatever number of its
\* rows had been inserted, none of them is in the catalog, and the catalog is
\* what it was when the call started.
C14_FailedWriteAtomic ==
    \A p \in Procs :
        WriteFailed(p) =>
            /\ \A i \in 1..Len(task[p].mine) :
                  task[p].mine[i].result_id \notin ResultIds(results)
            /\ results = resBefore[p]

\* C14 witness: a persisting call has failed after inserting at least one of
\* its rows and before inserting all of them, on a catalog that already held
\* a row.
C14_Witness ==
    \E p \in Procs :
        /\ WriteFailed(p)
        /\ task[p].mine # <<>>
        /\ Len(task[p].out) >= 1
        /\ results # <<>>

\* C17: for a caller that awaits each call, every feature read from the
\* store before an add_feature call is still read from it, unchanged, after
\* the call -- also when the load inside the call failed.
C17_FailedReadKeepsData ==
    \A p \in Procs :
        (serialized /\ Done(p, "add")) =>
            LET now == View(db)
                before == View(dbBefore[p])
            IN  \A j \in 1..Len(before) : \E i \in 1..Len(now) : now[i] = before[j]

====
